---- MODULE Spec2Model ----
(***************************************************************************)
(* The NES core of EMUNESV0.py, EMUAI4K.py and EMU4K4.2.25$1.0.py: the     *)
(* Memory map (2 KiB RAM mirrored below 0x2000, PRG ROM mirrored from      *)
(* 0x8000), the 6502-subset CPU (reset vector, step), the iNES loaders     *)
(* that produce the PRG and CHR buffers, the formatter of EMUNESV0.py and  *)
(* the Tk application (open_rom, start, the emulate timer loop, the ROM    *)
(* cache of EMU4K4.2.25$1.0.py).                                           *)
(*                                                                         *)
(* Python bytes/lists are 0-indexed; the sequences here are 1-indexed, so  *)
(* buf[i] in the source is buf[i + 1] here.                                *)
(***************************************************************************)
EXTENDS Integers, Sequences, FiniteSets, TLC

VARIABLES variant, rom_file, memory, cpu, exc, steps, writes, last, common,
          ppu, running, pending, rom_cache, orphan, shown, opens,
          output, loaded

\* The attributes of EmulatorApp and the callbacks queued on the Tk timer.
appVars == <<ppu, running, pending, rom_cache, orphan, shown, opens>>

\* The file written by format_ines_rom and the result of a loader call.
fileVars == <<output, loaded>>

vars == <<variant, rom_file, memory, cpu, exc, steps, writes, last, common,
          appVars, fileVars>>

(***************************************************************************)
(* Bounds of the exploration.                                              *)
(***************************************************************************)
MaxSteps == 6
MaxWrites == 1
MaxPrgBanks == 2
MaxChrBanks == 1

(***************************************************************************)
(* The three source files.                                                 *)
(***************************************************************************)
NESV0 == "EMUNESV0.py"
AI4K == "EMUAI4K.py"
EMU4K4 == "EMU4K4.2.25$1.0.py"
Variants == {NESV0, AI4K, EMU4K4}

RAM_SIZE == 2048

(***************************************************************************)
(* Python's & on ints, for a non-negative mask y (x may be negative:       *)
(* Python ints are two's complement of unbounded width, so x % 2 and       *)
(* floor division give the bits).                                          *)
(***************************************************************************)
RECURSIVE BitAnd(_, _)
BitAnd(x, y) ==
    IF y = 0 THEN 0
    ELSE (x % 2) * (y % 2) + 2 * BitAnd(x \div 2, y \div 2)

\* Python's | on non-negative ints.
RECURSIVE BitOr(_, _)
BitOr(x, y) ==
    IF x = 0 THEN y
    ELSE IF y = 0 THEN x
    ELSE (IF x % 2 = 1 \/ y % 2 = 1 THEN 1 ELSE 0) + 2 * BitOr(x \div 2, y \div 2)

\* Python's x & ~flag for non-negative x and flag.
RECURSIVE BitAndNot(_, _)
BitAndNot(x, flag) ==
    IF x = 0 THEN 0
    ELSE (IF x % 2 = 1 /\ flag % 2 = 0 THEN 1 ELSE 0)
         + 2 * BitAndNot(x \div 2, flag \div 2)

\* Python's x << 8.
Shl8(x) == x * 256

(***************************************************************************)
(* iNES files.  A file is the sequence of its bytes.                       *)
(***************************************************************************)
Zeros(n) == [i \in 1..n |-> 0]

\* What f.read(n) returns at 0-based offset pos: at most n bytes, fewer at
\* the end of the file.
FileRead(file, pos, n) ==
    SubSeq(file, pos + 1, IF pos + n < Len(file) THEN pos + n ELSE Len(file))

Signature == <<78, 69, 83, 26>>

NoError == "none"

\* load_ines_rom of EMUNESV0.py and EMU4K4.2.25$1.0.py (identical text).
\* header[4] on a header shorter than 5 bytes raises IndexError.
load_ines_rom(file) ==
    LET header == FileRead(file, 0, 16)
    IN  IF SubSeq(header, 1, IF Len(header) < 4 THEN Len(header) ELSE 4) # Signature
        THEN [err |-> "ValueError", prg_rom |-> <<>>, chr_rom |-> <<>>]
        ELSE IF Len(header) < 7
        THEN [err |-> "IndexError", prg_rom |-> <<>>, chr_rom |-> <<>>]
        ELSE
        LET prg_rom_size == header[5] * 16 * 1024
            chr_rom_size == header[6] * 8 * 1024
            trainer == IF BitAnd(header[7], 4) # 0 THEN 512 ELSE 0
            prgStart == IF 16 + trainer < Len(file) THEN 16 + trainer ELSE Len(file)
            prg_rom == FileRead(file, prgStart, prg_rom_size)
            chrStart == prgStart + Len(prg_rom)
        IN  [err |-> NoError,
             prg_rom |-> prg_rom,
             chr_rom |-> IF chr_rom_size > 0
                         THEN FileRead(file, chrStart, chr_rom_size)
                         ELSE <<>>]

\* The inline loader of EmulatorApp.__init__ in EMUAI4K.py: no signature
\* check and no trainer skip.
inline_rom_load(file) ==
    LET header == FileRead(file, 0, 16)
    IN  IF Len(header) < 6
        THEN [err |-> "IndexError", prg_rom |-> <<>>, chr_rom |-> <<>>]
        ELSE
        LET prg_rom_size == 16384 * header[5]
            chr_rom_size == 8192 * header[6]
            prgStart == Len(header)
            prg_rom == FileRead(file, prgStart, prg_rom_size)
        IN  [err |-> NoError,
             prg_rom |-> prg_rom,
             chr_rom |-> FileRead(file, prgStart + Len(prg_rom), chr_rom_size)]

LoadRom(v, file) == IF v = AI4K THEN inline_rom_load(file) ELSE load_ines_rom(file)

\* format_ines_rom with the trainer flag set in header[6].
format_ines_rom_TrainerFlag(prg_data, chr_data) ==
    Signature \o <<Len(prg_data) \div (16 * 1024), Len(chr_data) \div (8 * 1024), 4>>
      \o Zeros(9) \o prg_data \o chr_data

\* The bytes format_ines_rom of EMUNESV0.py writes to output_path; chr_data
\* is empty when no chr_path is given.
format_ines_rom(prg_data, chr_data) ==
    LET prg_size == Len(prg_data) \div (16 * 1024)
        chr_size == Len(chr_data) \div (8 * 1024)
        header == Signature \o <<prg_size, chr_size>> \o Zeros(10)
    IN  header \o prg_data \o chr_data

(***************************************************************************)
(* Memory.                                                                 *)
(***************************************************************************)
\* The value standing for "the call raised ZeroDivisionError" (the modulo
\* by len(self.prg_rom) when the buffer is empty).
ZeroDivisionError == -1

Memory_init(prg_rom) ==
    [ram |-> [i \in 0..(RAM_SIZE - 1) |-> 0], prg_rom |-> prg_rom]

\* Memory.read with the RAM window ending at 0x1800 instead of 0x2000.
Memory_read_ShortRamWindow(self, address) ==
    IF address < 6144
    THEN self.ram[address % RAM_SIZE]
    ELSE IF address >= 32768
    THEN IF Len(self.prg_rom) = 0
         THEN ZeroDivisionError
         ELSE self.prg_rom[((address - 32768) % Len(self.prg_rom)) + 1]
    ELSE 0

\* Memory.read with the ROM index one byte off.
Memory_read_RomOffByOne(self, address) ==
    IF address < 8192
    THEN self.ram[address % RAM_SIZE]
    ELSE IF address >= 32768
    THEN IF Len(self.prg_rom) = 0
         THEN ZeroDivisionError
         ELSE self.prg_rom[((address - 32767) % Len(self.prg_rom)) + 1]
    ELSE 0

Memory_read(self, address) ==
    IF address < 8192
    THEN self.ram[address % RAM_SIZE]
    ELSE IF address >= 32768
    THEN IF Len(self.prg_rom) = 0
         THEN ZeroDivisionError
         ELSE self.prg_rom[((address - 32768) % Len(self.prg_rom)) + 1]
    ELSE 0

\* Memory.write without the address < 0x2000 test.
Memory_write_Unguarded(self, address, value) ==
    [self EXCEPT !.ram[address % RAM_SIZE] = BitAnd(value, 255)]

Memory_write(self, address, value) ==
    IF address < 8192
    THEN [self EXCEPT !.ram[address % RAM_SIZE] = BitAnd(value, 255)]
    ELSE self

\* read_word: EMUAI4K.py reads the high byte at address + 1 unmasked, the
\* other two files at (address + 1) & 0xFFFF.
HiAddress(v, address) ==
    IF v = AI4K THEN address + 1 ELSE BitAnd(address + 1, 65535)

\* read_word with the two bytes in big-endian order.
Memory_read_word_BigEndian(v, self, address) ==
    LET lo == Memory_read(self, address)
        hi == Memory_read(self, HiAddress(v, address))
    IN  IF lo = ZeroDivisionError \/ hi = ZeroDivisionError
        THEN ZeroDivisionError
        ELSE BitOr(Shl8(lo), hi)

Memory_read_word(v, self, address) ==
    LET lo == Memory_read(self, address)
        hi == Memory_read(self, HiAddress(v, address))
    IN  IF lo = ZeroDivisionError \/ hi = ZeroDivisionError
        THEN ZeroDivisionError
        ELSE BitOr(Shl8(hi), lo)

(***************************************************************************)
(* CPU.                                                                    *)
(***************************************************************************)
\* self.cpu before a CPU has been constructed.
NoCPU == [live |-> FALSE, PC |-> 0, A |-> 0, X |-> 0, Y |-> 0, SP |-> 0, status |-> 0]

CPU_init(v, mem) ==
    [live |-> TRUE,
     PC |-> Memory_read_word(v, mem, 65532),
     A |-> 0, X |-> 0, Y |-> 0,
     SP |-> 253,
     status |-> 36]

\* set_flag clearing with status &= flag (the ~ forgotten).
set_flag_NoComplement(status, flag, value) ==
    IF value THEN BitOr(status, flag) ELSE BitAnd(status, flag)

set_flag(status, flag, value) ==
    IF value THEN BitOr(status, flag) ELSE BitAndNot(status, flag)

\* The pair of set_flag calls with Zero kept in bit 2.
SetZN_WrongBit(status, reg) ==
    set_flag(set_flag(status, 4, reg = 0), 128, BitAnd(reg, 128) # 0)

\* The pair of set_flag calls that follows every register load.
SetZN(status, reg) ==
    set_flag(set_flag(status, 2, reg = 0), 128, BitAnd(reg, 128) # 0)

\* The opcodes each file's step() decodes; every other value falls to the
\* final else.
Decoded(v) ==
    IF v = NESV0 THEN {169, 162, 160, 141, 76, 234, 232, 202, 0}
    ELSE {169, 141, 76, 234, 0}

\* self.PC = (self.PC + 1) & 0xFFFF
NextPC(pc) == BitAnd(pc + 1, 65535)

\* The PC advance of STA without the & 0xFFFF.
StaNextPC_Unmasked(pc) == pc + 2

\* self.PC = (self.PC + 2) & 0xFFFF, after the operand of STA
StaNextPC(pc) == BitAnd(pc + 2, 65535)

\* The absolute operand with its two bytes swapped.
AbsoluteOperand_Swapped(v, mem, pc) ==
    LET lo == Memory_read(mem, pc)
        hi == Memory_read(mem, HiAddress(v, pc))
    IN  BitOr(hi, Shl8(lo))

\* lo | (hi << 8), the operand of STA and JMP; pc is the PC after the
\* opcode fetch.
AbsoluteOperand(v, mem, pc) ==
    LET lo == Memory_read(mem, pc)
        hi == Memory_read(mem, HiAddress(v, pc))
    IN  BitOr(lo, Shl8(hi))

\* INX without the & 0xFF.
INX_Unmasked(x) == x + 1

\* self.X = (self.X + 1) & 0xFF and self.X = (self.X - 1) & 0xFF
INX(x) == BitAnd(x + 1, 255)

\* DEX without the & 0xFF.
DEX_Unmasked(x) == x - 1

DEX(x) == BitAnd(x - 1, 255)

\* The passing branches with BRK's three stack pushes added.
Unimplemented_Pushes(c, mem, pc) ==
    [cpu |-> [c EXCEPT !.PC = pc, !.SP = BitAnd(c.SP - 3, 255)], memory |-> mem]

\* The branches that only pass (NOP, BRK and the final else): nothing but
\* the PC advance of the opcode fetch.
Unimplemented(c, mem, pc) ==
    [cpu |-> [c EXCEPT !.PC = pc], memory |-> mem]

\* step(): the CPU and the Memory after one call.
CPU_step(v, c, mem) ==
    LET opcode == Memory_read(mem, c.PC)
        pc1 == NextPC(c.PC)
        value == Memory_read(mem, pc1)
        addr == AbsoluteOperand(v, mem, pc1)
    IN  IF opcode \notin Decoded(v) THEN Unimplemented(c, mem, pc1)
        ELSE CASE opcode = 169 ->
               [cpu |-> [c EXCEPT !.PC = NextPC(pc1), !.A = value,
                                  !.status = SetZN(c.status, value)],
                memory |-> mem]
          [] opcode = 162 ->
               [cpu |-> [c EXCEPT !.PC = NextPC(pc1), !.X = value,
                                  !.status = SetZN(c.status, value)],
                memory |-> mem]
          [] opcode = 160 ->
               [cpu |-> [c EXCEPT !.PC = NextPC(pc1), !.Y = value,
                                  !.status = SetZN(c.status, value)],
                memory |-> mem]
          [] opcode = 141 ->
               [cpu |-> [c EXCEPT !.PC = StaNextPC(pc1)],
                memory |-> Memory_write(mem, addr, c.A)]
          [] opcode = 76 ->
               [cpu |-> [c EXCEPT !.PC = addr], memory |-> mem]
          [] opcode = 232 ->
               [cpu |-> [c EXCEPT !.PC = pc1, !.X = INX(c.X),
                                  !.status = SetZN(c.status, INX(c.X))],
                memory |-> mem]
          [] opcode = 202 ->
               [cpu |-> [c EXCEPT !.PC = pc1, !.X = DEX(c.X),
                                  !.status = SetZN(c.status, DEX(c.X))],
                memory |-> mem]
          [] OTHER -> Unimplemented(c, mem, pc1)

(***************************************************************************)
(* The ROM images of the exploration.  Opcodes: A9 = 169 (LDA), A2 = 162   *)
(* (LDX), A0 = 160 (LDY), 8D = 141 (STA), 4C = 76 (JMP), EA = 234 (NOP),   *)
(* E8 = 232 (INX), CA = 202 (DEX), 00 (BRK).                               *)
(***************************************************************************)
Header(prgBanks, chrBanks, flags6) ==
    Signature \o <<prgBanks, chrBanks, flags6>> \o Zeros(9)

\* One 16 KiB PRG bank: prog at 0x8000, zeros, and tail in the last four
\* bytes (the reset vector at 0xFFFC/0xFFFD, then 0xFFFE and 0xFFFF).
Bank(prog, tail) ==
    [i \in 1..16384 |->
        IF i <= Len(prog) THEN prog[i]
        ELSE IF i > 16380 THEN tail[i - 16380]
        ELSE 0]

\* LDA #v ; STA $0200 ; JMP $8000
LoopProgram(v) == <<169, v, 141, 0, 2, 76, 0, 128>>

LoopPaths == {"loop05.nes", "loop00.nes", "loop80.nes"}

\* The operand v of the loop program in each of the loop files.
LoopValue(path) ==
    CASE path = "loop05.nes" -> 5
      [] path = "loop00.nes" -> 0
      [] path = "loop80.nes" -> 128

FileBytes(path) ==
    CASE path \in LoopPaths ->
           Header(1, 0, 0) \o Bank(LoopProgram(LoopValue(path)), <<0, 128, 0, 0>>)
      \* LDX #$FF ; INX ; DEX ; LDY #$80 ; BRK ; (0x02, not decoded)
      [] path = "index.nes" ->
           Header(1, 0, 0)
             \o Bank(<<162, 255, 232, 202, 160, 128, 0, 2>>, <<0, 128, 0, 0>>)
      \* LDA #$7F ; STA $2000 ; STA $8000 ; STA $FFFF ; STA $0800 ; NOP
      [] path = "sta.nes" ->
           Header(1, 0, 0)
             \o Bank(<<169, 127, 141, 0, 32, 141, 0, 128, 141, 255, 255,
                       141, 0, 8, 234>>, <<0, 128, 0, 0>>)
      \* vector 0x1234: the CPU starts in the RAM mirrors
      [] path = "vec1234.nes" ->
           Header(1, 0, 0) \o Bank(<<2>>, <<52, 18, 0, 0>>)
      \* vector 0xFFFE: LDA #$2A in the last two bytes of the address space
      [] path = "lda_fffe.nes" ->
           Header(1, 0, 0) \o Bank(<<2>>, <<254, 255, 169, 42>>)
      \* vector 0xFFFE: STA with its low operand byte at 0xFFFF
      [] path = "sta_fffe.nes" ->
           Header(1, 0, 0) \o Bank(<<2>>, <<254, 255, 141, 16>>)
      \* vector 0xFFFE: JMP with its low operand byte at 0xFFFF
      [] path = "jmp_fffe.nes" ->
           Header(1, 0, 0) \o Bank(<<2>>, <<254, 255, 76, 52>>)
      \* vector 0xFFFF: the opcode in the last byte, operands at 0x0000
      [] path = "sta_ffff.nes" ->
           Header(1, 0, 0) \o Bank(<<2>>, <<255, 255, 0, 141>>)
      [] path = "jmp_ffff.nes" ->
           Header(1, 0, 0) \o Bank(<<2>>, <<255, 255, 0, 76>>)
      [] path = "ldy_ffff.nes" ->
           Header(1, 0, 0) \o Bank(<<2>>, <<255, 255, 0, 160>>)
      [] path = "brk_ffff.nes" ->
           Header(1, 0, 0) \o Bank(<<2>>, <<255, 255, 0, 0>>)
      \* vector 0xFFFD: 0xFF (not decoded) ; DEX ; INX
      [] path = "dex_fffd.nes" ->
           Header(1, 0, 0) \o Bank(<<2>>, <<253, 255, 202, 232>>)
      \* header declares no PRG bank
      [] path = "noprg.nes" -> Header(0, 0, 0)
      \* header declares one bank, the file ends after the header
      [] path = "headeronly.nes" -> Header(1, 0, 0)
      \* header declares one bank, the file holds eight PRG bytes
      [] path = "short.nes" -> Header(1, 0, 0) \o LoopProgram(5)

RomPaths ==
    LoopPaths \cup
    {"index.nes", "sta.nes", "vec1234.nes",
     "lda_fffe.nes", "sta_fffe.nes", "jmp_fffe.nes", "sta_ffff.nes",
     "jmp_ffff.nes", "ldy_ffff.nes", "brk_ffff.nes", "dex_fffd.nes",
     "noprg.nes", "headeronly.nes", "short.nes"}

\* The operand files: one per group, earlier register value pre and
\* operand v, so that every load and every INX/DEX meets every byte value
\* under each setting of the Zero and Negative flags.
\*   "load":  LDA #pre ; LDA #v ; LDX #pre ; LDX #v ; LDY #pre ; LDY #v
\*   "index": LDX #v ; LDA #pre ; INX ; LDX #v ; LDA #pre ; DEX
\*   "round": LDX #v ; INX ; DEX ; DEX ; INX
\* Each is a truncated file: the header declares one bank and 16 PRG bytes
\* follow.  Memory mirrors the 16 bytes over 0x8000..0xFFFF, so the bytes
\* at offsets 12 and 13 are the reset vector (0xFFFC % 16 = 12).
OperandPaths ==
    ({"load", "index"} \X {0, 1, 128} \X (0..255))
      \cup ({"round"} \X {0} \X (0..255))

OperandFileBytes(path) ==
    LET pre == path[2]
        v == path[3]
    IN  Header(1, 0, 0)
          \o (CASE path[1] = "load" ->
                     <<169, pre, 169, v, 162, pre, 162, v, 160, pre, 160, v>>
                [] path[1] = "index" ->
                     <<162, v, 169, pre, 232, 162, v, 169, pre, 202, 0, 0>>
                [] path[1] = "round" ->
                     <<162, v, 232, 202, 202, 232, 0, 0, 0, 0, 0, 0>>)
          \o <<0, 128, 0, 0>>

\* Arguments of the direct Memory.write calls.
WriteAddrs == {0, 2048, 8191, 8192, 32768}
WriteVals == {1, 384}

(***************************************************************************)
(* The state machine.  memory is the Memory object, cpu the CPU built over *)
(* it (NoCPU before), exc the exception that escaped the last call, last   *)
(* the record of the last call: its kind, and for a step the opcode        *)
(* fetched, the CPU before the call and the target of its STA.             *)
(***************************************************************************)
NoCall == [op |-> "Memory", opcode |-> -1, pre |-> NoCPU, addr |-> -1, value |-> -1]

\* The opcodes decoded by all three files.
CommonOpcodes == {169, 141, 76, 234, 0}

\* self.memory = None, self.ppu = None of EmulatorApp.__init__.
NoMemory == [ram |-> <<>>, prg_rom |-> <<>>]
NoPPU == [live |-> FALSE, chr_rom |-> <<>>]

\* self.rom_cache = {}
NoCache == [p \in {} |-> <<>>]

\* No loader call made yet.
NoLoad == [err |-> "unread", prg_rom |-> <<>>, chr_rom |-> <<>>]

\* No EmulatorApp: the Memory and CPU classes are driven directly.
NoApp ==
    /\ ppu = NoPPU
    /\ running = FALSE
    /\ pending = 0
    /\ rom_cache = NoCache
    /\ orphan = NoMemory
    /\ shown = NoError
    /\ opens = 0
    /\ output = <<>>
    /\ loaded = NoLoad

\* Memory(prg_rom) over the buffer the loader returned for the file.
Loaded(file) ==
    /\ LET rom == LoadRom(variant, file)
       IN  /\ rom.err = NoError
           /\ memory = Memory_init(rom.prg_rom)
    /\ cpu = NoCPU
    /\ exc = NoError
    /\ steps = 0
    /\ writes = 0
    /\ last = NoCall
    /\ common = TRUE
    /\ NoApp

Init ==
    /\ variant \in Variants
    /\ rom_file \in RomPaths
    /\ Loaded(FileBytes(rom_file))

InitOperands ==
    /\ variant \in Variants
    /\ rom_file \in OperandPaths
    /\ Loaded(OperandFileBytes(rom_file))

\* CPU(memory): the reset-vector fetch raises when the PRG buffer is empty.
CPU_new ==
    /\ ~cpu.live
    /\ exc = NoError
    /\ LET c == CPU_init(variant, memory)
       IN  IF c.PC = ZeroDivisionError
           THEN /\ exc' = "ZeroDivisionError"
                /\ cpu' = cpu
           ELSE /\ cpu' = c
                /\ exc' = exc
    /\ last' = [NoCall EXCEPT !.op = "CPU"]
    /\ UNCHANGED <<variant, rom_file, memory, steps, writes, common,
                   appVars, fileVars>>

\* cpu.step()
step ==
    /\ cpu.live
    /\ steps < MaxSteps
    /\ LET r == CPU_step(variant, cpu, memory)
       IN  /\ cpu' = r.cpu
           /\ memory' = r.memory
    /\ steps' = steps + 1
    /\ LET opcode == Memory_read(memory, cpu.PC)
       IN  last' = [op |-> "step",
                    opcode |-> opcode,
                    pre |-> cpu,
                    addr |-> IF opcode = 141
                             THEN AbsoluteOperand(variant, memory, NextPC(cpu.PC))
                             ELSE -1,
                    value |-> IF opcode = 141 THEN cpu.A ELSE -1]
           /\ common' = (common /\ opcode \in CommonOpcodes)
    /\ UNCHANGED <<variant, rom_file, exc, writes, appVars, fileVars>>

\* memory.write(address, value), called directly
write(address, value) ==
    /\ writes < MaxWrites
    /\ memory' = Memory_write(memory, address, value)
    /\ writes' = writes + 1
    /\ last' = [NoCall EXCEPT !.op = "write", !.addr = address, !.value = value]
    /\ UNCHANGED <<variant, rom_file, cpu, exc, steps, common,
                   appVars, fileVars>>

\* The Memory and the CPU driven through their methods.
Next ==
    \/ CPU_new
    \/ step
    \/ \E address \in WriteAddrs, value \in WriteVals : write(address, value)

Spec == Init /\ [][Next]_vars

\* The CPU running its program with nothing else writing to the Memory.
NextCpu ==
    \/ CPU_new
    \/ step

SpecCpu == Init /\ [][NextCpu]_vars

SpecOperands == InitOperands /\ [][NextCpu]_vars

(***************************************************************************)
(* The loaders and the formatter on their own.  rom_file describes the     *)
(* input: <<"image", sig, p, c, flags6>> is an iNES file with signature    *)
(* kind sig, p PRG banks, c CHR banks and header byte 6 = flags6;          *)
(* <<"payload", banks, extra, chrBanks, seed>> is a PRG binary of banks    *)
(* 16 KiB banks plus extra bytes and a CHR binary of chrBanks 8 KiB banks  *)
(* (none when 0) handed to --format-rom.                                   *)
(***************************************************************************)
PrgData(banks, extra, seed) ==
    [i \in 1..(banks * 16384 + extra) |-> ((i - 1) * 7 + seed) % 256]

ChrData(banks, seed) ==
    [i \in 1..(banks * 8192) |-> ((i - 1) * 5 + seed + 1) % 256]

Trainer == [i \in 1..512 |-> 224 + (i % 16)]

\* 0: "NES\x1a"; 1: "MES\x1a"; 2: "NES\x00".
SignatureKinds == {0, 1, 2}

SignatureBytes(sig) ==
    CASE sig = 0 -> Signature
      [] sig = 1 -> <<77, 69, 83, 26>>
      [] sig = 2 -> <<78, 69, 83, 0>>

\* Header byte 6: nothing, vertical mirroring, trainer present.
FlagBytes == {0, 1, 4}

ImagePaths ==
    {"image"} \X SignatureKinds \X (0..MaxPrgBanks) \X (0..MaxChrBanks) \X FlagBytes

ImageBytes(path) ==
    SignatureBytes(path[2]) \o <<path[3], path[4], path[5]>> \o Zeros(9)
      \o (IF BitAnd(path[5], 4) # 0 THEN Trainer ELSE <<>>)
      \o PrgData(path[3], 0, 0)
      \o ChrData(path[4], 0)

PayloadPaths ==
    {"payload"} \X (1..MaxPrgBanks) \X {0, 5} \X (0..MaxChrBanks) \X {0, 1}

InitFiles ==
    /\ variant \in Variants
    /\ rom_file \in ImagePaths \cup (IF variant = NESV0 THEN PayloadPaths ELSE {})
    /\ memory = NoMemory
    /\ cpu = NoCPU
    /\ exc = NoError
    /\ steps = 0
    /\ writes = 0
    /\ last = NoCall
    /\ common = TRUE
    /\ NoApp

\* main() of EMUNESV0.py with --format-rom prg.bin [chr.bin]
format_rom ==
    /\ variant = NESV0
    /\ rom_file[1] = "payload"
    /\ output = <<>>
    /\ output' = format_ines_rom(PrgData(rom_file[2], rom_file[3], rom_file[5]),
                                 ChrData(rom_file[4], rom_file[5]))
    /\ UNCHANGED <<variant, rom_file, memory, cpu, exc, steps, writes, last,
                   common, appVars, loaded>>

\* The loader of the file applied to the image, or to the file that
\* format_ines_rom wrote.
load_rom ==
    /\ loaded = NoLoad
    /\ rom_file[1] = "payload" => output # <<>>
    /\ loaded' = LoadRom(variant, IF rom_file[1] = "payload"
                                  THEN output
                                  ELSE ImageBytes(rom_file))
    /\ UNCHANGED <<variant, rom_file, memory, cpu, exc, steps, writes, last,
                   common, appVars, output>>

NextFiles ==
    \/ format_rom
    \/ load_rom

SpecFiles == InitFiles /\ [][NextFiles]_vars

(***************************************************************************)
(* The Tk application.  pending counts the emulate callbacks that          *)
(* root.after has queued and that have not fired yet; orphan is the Memory *)
(* left in self.memory when CPU(self.memory) raised (self.cpu then still   *)
(* holds the Memory of the session before); shown is the error the last    *)
(* handler put in a message box; opens counts the ROM selections.          *)
(***************************************************************************)
MaxOpens == 2

AppPaths == {"loop.nes", "store.nes", "chr.nes", "bad.nes", "noprg.nes"}

\* The files the dialog offers.  loop.nes, store.nes and bad.nes end 16
\* bytes after the header, so their PRG buffer is 16 bytes mirrored over
\* 0x8000..0xFFFF with the reset vector at offsets 12 and 13.
AppFileBytes(path) ==
    CASE path = "loop.nes" ->
           Header(1, 0, 0) \o LoopProgram(5) \o <<0, 0, 0, 0, 0, 128, 0, 0>>
      \* LDA #$7F ; STA $0800 ; NOP ...
      [] path = "store.nes" ->
           Header(1, 0, 0)
             \o <<169, 127, 141, 0, 8, 234, 234, 234, 234, 234, 234, 234,
                  0, 128, 0, 0>>
      \* one PRG bank and one CHR bank
      [] path = "chr.nes" ->
           Header(1, 1, 0) \o Bank(LoopProgram(128), <<0, 128, 0, 0>>) \o ChrData(1, 0)
      \* loop.nes with "MES\x1a" for a signature
      [] path = "bad.nes" ->
           SignatureBytes(1) \o <<1, 0, 0>> \o Zeros(9)
             \o LoopProgram(5) \o <<0, 0, 0, 0, 0, 128, 0, 0>>
      \* header declares no PRG bank
      [] path = "noprg.nes" -> Header(0, 0, 0)

PPU_init(chr_rom) == [live |-> TRUE, chr_rom |-> chr_rom]

\* The root.after(16, self.emulate) calls of one emulate().
Scheduled(v) == IF v = EMU4K4 THEN 2 ELSE 1

\* The store into rom_cache also when load_ines_rom raised.
rom_cache_store_OnError(v, cache, path, rom) ==
    IF v = EMU4K4
    THEN [p \in DOMAIN cache \cup {path} |->
            IF p = path THEN <<rom.prg_rom, rom.chr_rom>> ELSE cache[p]]
    ELSE cache

\* self.rom_cache[rom_file] = (prg_rom, chr_rom), reached only when
\* load_ines_rom returned.
rom_cache_store(v, cache, path, rom) ==
    IF v = EMU4K4 /\ rom.err = NoError
    THEN [p \in DOMAIN cache \cup {path} |->
            IF p = path THEN <<rom.prg_rom, rom.chr_rom>> ELSE cache[p]]
    ELSE cache

\* The cached pair unpacked in the wrong order.
rom_cache_lookup_Swapped(cache, path) ==
    [err |-> NoError, prg_rom |-> cache[path][2], chr_rom |-> cache[path][1]]

\* prg_rom, chr_rom = self.rom_cache[rom_file]
rom_cache_lookup(cache, path) ==
    [err |-> NoError, prg_rom |-> cache[path][1], chr_rom |-> cache[path][2]]

InitApp ==
    /\ variant \in Variants
    /\ rom_file \in (IF variant = AI4K THEN AppPaths ELSE {""})
    /\ memory = NoMemory
    /\ cpu = NoCPU
    /\ exc = NoError
    /\ steps = 0
    /\ writes = 0
    /\ last = NoCall
    /\ common = TRUE
    /\ NoApp

\* self.emulate() with self.running set, on CPU c over Memory m: one
\* cpu.step() and the root.after calls.  fired is 1 when the call is a
\* timer callback, 0 when a handler makes it; fresh when c was just built.
emulate_running(c, m, fired, op, fresh) ==
    /\ LET r == CPU_step(variant, c, m)
           opcode == Memory_read(m, c.PC)
       IN  /\ cpu' = r.cpu
           /\ memory' = r.memory
           /\ last' = [op |-> op,
                       opcode |-> opcode,
                       pre |-> c,
                       addr |-> IF opcode = 141
                                THEN AbsoluteOperand(variant, m, NextPC(c.PC))
                                ELSE -1,
                       value |-> IF opcode = 141 THEN c.A ELSE -1]
           /\ common' = ((fresh \/ common) /\ opcode \in CommonOpcodes)
    /\ steps' = steps + 1
    /\ pending' = (pending - fired) + Scheduled(variant)

\* EmulatorApp.open_rom of EMUNESV0.py and EMU4K4.2.25$1.0.py with path
\* chosen in the file dialog ("" when the dialog is cancelled).
open_rom(path) ==
    /\ variant # AI4K
    /\ opens < MaxOpens
    /\ steps < MaxSteps
    /\ opens' = opens + 1
    /\ rom_file' = path
    /\ IF path = ""
       THEN /\ last' = [NoCall EXCEPT !.op = "open_rom"]
            /\ shown' = NoError
            /\ exc' = NoError
            /\ UNCHANGED <<memory, cpu, steps, common, ppu, running, pending,
                           rom_cache, orphan>>
       ELSE
       LET hit == variant = EMU4K4 /\ path \in DOMAIN rom_cache
           rom == IF hit
                  THEN rom_cache_lookup(rom_cache, path)
                  ELSE load_ines_rom(AppFileBytes(path))
           m == Memory_init(rom.prg_rom)
           c == CPU_init(variant, m)
       IN  /\ rom_cache' = IF hit
                           THEN rom_cache
                           ELSE rom_cache_store(variant, rom_cache, path, rom)
           /\ IF rom.err # NoError
              THEN /\ shown' = rom.err
                   /\ exc' = NoError
                   /\ last' = [NoCall EXCEPT !.op = "open_rom"]
                   /\ UNCHANGED <<memory, cpu, steps, common, ppu, running,
                                  pending, orphan>>
              ELSE IF c.PC = ZeroDivisionError
              THEN /\ orphan' = m
                   /\ exc' = "ZeroDivisionError"
                   /\ shown' = NoError
                   /\ last' = [NoCall EXCEPT !.op = "open_rom"]
                   /\ UNCHANGED <<memory, cpu, steps, common, ppu, running,
                                  pending>>
              ELSE /\ orphan' = NoMemory
                   /\ ppu' = PPU_init(rom.chr_rom)
                   /\ running' = TRUE
                   /\ exc' = NoError
                   /\ shown' = NoError
                   /\ emulate_running(c, m, 0, "open_rom", TRUE)
    /\ UNCHANGED <<variant, writes, fileVars>>

\* EmulatorApp.__init__ of EMUAI4K.py on the file named on the command
\* line; an exception other than FileNotFoundError ends the process.
EmulatorApp_init ==
    /\ variant = AI4K
    /\ opens = 0
    /\ opens' = 1
    /\ LET rom == inline_rom_load(AppFileBytes(rom_file))
           m == Memory_init(rom.prg_rom)
           c == CPU_init(variant, m)
       IN  IF rom.err # NoError
           THEN /\ exc' = rom.err
                /\ UNCHANGED <<memory, cpu, ppu, orphan>>
           ELSE IF c.PC = ZeroDivisionError
           THEN /\ exc' = "ZeroDivisionError"
                /\ orphan' = m
                /\ UNCHANGED <<memory, cpu, ppu>>
           ELSE /\ exc' = NoError
                /\ memory' = m
                /\ cpu' = c
                /\ ppu' = PPU_init(rom.chr_rom)
                /\ orphan' = NoMemory
    /\ running' = FALSE
    /\ last' = [NoCall EXCEPT !.op = "EmulatorApp"]
    /\ UNCHANGED <<variant, rom_file, steps, writes, common, pending,
                   rom_cache, shown, fileVars>>

\* EmulatorApp.start of EMUAI4K.py, called once by the main block.
start ==
    /\ variant = AI4K
    /\ cpu.live
    /\ ~running
    /\ steps < MaxSteps
    /\ running' = TRUE
    /\ emulate_running(cpu, memory, 0, "start", TRUE)
    /\ UNCHANGED <<variant, rom_file, exc, writes, ppu, rom_cache, orphan,
                   shown, opens, fileVars>>

\* A queued emulate callback fires.
emulate ==
    /\ pending > 0
    /\ steps < MaxSteps
    /\ IF running
       THEN emulate_running(cpu, memory, 1, "emulate", FALSE)
       ELSE /\ pending' = pending - 1
            /\ last' = [NoCall EXCEPT !.op = "emulate"]
            /\ UNCHANGED <<memory, cpu, steps, common>>
    /\ exc' = NoError
    /\ shown' = NoError
    /\ UNCHANGED <<variant, rom_file, writes, ppu, running, rom_cache, orphan,
                   opens, fileVars>>

NextApp ==
    \/ \E path \in AppPaths \cup {""} : open_rom(path)
    \/ EmulatorApp_init
    \/ start
    \/ emulate

SpecApp == InitApp /\ [][NextApp]_vars

(***************************************************************************)
(* The properties.                                                         *)
(***************************************************************************)
\* Bit i of a non-negative integer.
Bit(x, i) == (x \div (2 ^ i)) % 2

\* The addresses the properties read at: both ends of the RAM, of each of
\* its mirrors, of the unmapped region and of the ROM window, and every
\* RAM address the programs and the direct writes store to.
RamProbes == {0, 1, 16, 512, 528, 2047, 2048, 2049, 4095, 4096, 6143, 6144, 8191}
UnmappedProbes == {8192, 8193, 10240, 16384, 19458, 32767}
RomProbes == {32768, 32769, 32775, 32776, 32777, 49148, 49151, 49152,
              65532, 65533, 65534, 65535}

\* C1 as stated: for every a in [0, 0x2000) and k in 0..3,
\* read(a + k*0x800) = read(a mod 0x800), in every reachable state.
C1_MirrorEveryK ==
    \A a \in RamProbes : \A k \in 0..3 :
        Memory_read(memory, a + k * 2048) = Memory_read(memory, a % 2048)

\* C1 amended: for every a in [0, 0x2000) and k in 0..3 with
\* a + k*0x800 still below 0x2000, read(a + k*0x800) = read(a mod 0x800),
\* in the initial state and after any sequence of writes.
C1_RamMirroring ==
    \A a \in RamProbes : \A k \in 0..3 :
        a + k * 2048 < 8192 =>
            Memory_read(memory, a + k * 2048) = Memory_read(memory, a % 2048)

\* A write through the first mirror is read back, non-zero, at the base
\* address and in the last mirror.
C1_Witness ==
    /\ last.op = "write"
    /\ last.addr = 2048
    /\ Memory_read(memory, 0) # 0
    /\ Memory_read(memory, 6144) = Memory_read(memory, 0)

\* C2: read returns a byte for every address and every PRG buffer the
\* loader returns, 0 in [0x2000, 0x8000), and neither the CPU constructor
\* nor step raises.
C2_ReadNeverFails ==
    /\ \A a \in RamProbes \cup UnmappedProbes \cup RomProbes :
          Memory_read(memory, a) \in 0..255
    /\ \A a \in UnmappedProbes : Memory_read(memory, a) = 0
    /\ exc = NoError

\* C3: a write to an address >= 0x2000, direct or by STA, leaves the
\* Memory as it was, and no call changes the PRG buffer.
C3_WriteContainment ==
    [][/\ memory'.prg_rom = memory.prg_rom
       /\ (/\ writes' = writes + 1 \/ steps' = steps + 1
           /\ last'.addr >= 8192)
            => /\ memory' = memory
               /\ \A a \in RamProbes \cup RomProbes :
                     Memory_read(memory', a) = Memory_read(memory, a)]_vars

\* An STA of a non-zero accumulator into the ROM window has run.
C3_Witness ==
    /\ last.op = "step"
    /\ last.opcode = 141
    /\ last.addr >= 32768
    /\ last.value # 0

\* The offsets into the ROM window the ROM property reads at.
RomOffsets == {0, 1, 7, 8, 9, 16379, 16380, 16383, 16384, 16385, 32764, 32767}

\* C4: with a PRG buffer of length L >= 1, read(0x8000 + i) is
\* prg_rom[i mod L] for i in [0, 0x8000), whatever has been written.
C4_RomMirroring ==
    Len(memory.prg_rom) >= 1 =>
        \A i \in RomOffsets :
            Memory_read(memory, 32768 + i)
              = memory.prg_rom[(i % Len(memory.prg_rom)) + 1]

\* The eight-byte buffer is read mirrored (offset 8 is its first byte)
\* after a write that reached the RAM.
C4_Witness ==
    /\ Len(memory.prg_rom) = 8
    /\ last.op = "write"
    /\ Memory_read(memory, last.addr) # 0
    /\ Memory_read(memory, 32768 + 8) = 169

\* C5: the PC after one step of EMUNESV0.py: +2 after LDA/LDX/LDY, +3
\* after STA, the absolute operand after JMP, +1 after NOP/INX/DEX/BRK,
\* all modulo 0x10000.
C5_PCAdvance ==
    (variant = NESV0 /\ last.op = "step") =>
        LET pc == last.pre.PC
            opcode == last.opcode
        IN  /\ opcode \in {169, 162, 160} => cpu.PC = (pc + 2) % 65536
            /\ opcode = 141 => cpu.PC = (pc + 3) % 65536
            /\ opcode = 76 =>
                  cpu.PC = Memory_read(memory, (pc + 1) % 65536)
                             + 256 * Memory_read(memory, (pc + 2) % 65536)
            /\ opcode \in {234, 232, 202, 0} => cpu.PC = (pc + 1) % 65536

\* An STA fetched at 0xFFFE has left the PC at 0x0001.
C5_Witness ==
    /\ variant = NESV0
    /\ last.op = "step"
    /\ last.opcode = 141
    /\ last.pre.PC = 65534
    /\ cpu.PC = 1

\* The register a decoded opcode loads or counts, -1 for the others.
Destination(opcode) ==
    CASE opcode = 169 -> cpu.A
      [] opcode \in {162, 232, 202} -> cpu.X
      [] opcode = 160 -> cpu.Y
      [] OTHER -> -1

\* C6: after a step that executed LDA, LDX, LDY, INX or DEX, Zero is set
\* iff the destination register is 0 and Negative is bit 7 of it.
C6_FlagCorrectness ==
    (/\ last.op = "step"
     /\ last.opcode \in Decoded(variant) \cap {169, 162, 160, 232, 202}) =>
        LET reg == Destination(last.opcode)
        IN  /\ (Bit(cpu.status, 1) = 1) <=> (reg = 0)
            /\ Bit(cpu.status, 7) = Bit(reg, 7)

\* DEX has taken X from 0 to 0xFF with Zero set before it: Zero is now
\* clear and Negative set.
C6_Witness ==
    /\ last.op = "step"
    /\ last.opcode = 202
    /\ last.pre.X = 0
    /\ Bit(last.pre.status, 1) = 1
    /\ cpu.X = 255
    /\ Bit(cpu.status, 1) = 0
    /\ Bit(cpu.status, 7) = 1

\* C7: once the CPU is constructed, A, X, Y, SP and status are bytes and
\* PC is a 16-bit value.
C7_RegisterRange ==
    cpu.live =>
        /\ cpu.A \in 0..255
        /\ cpu.X \in 0..255
        /\ cpu.Y \in 0..255
        /\ cpu.SP \in 0..255
        /\ cpu.status \in 0..255
        /\ cpu.PC \in 0..65535

\* INX has wrapped X from 0xFF to 0.
C7_Witness ==
    /\ last.op = "step"
    /\ last.opcode = 232
    /\ last.pre.X = 255
    /\ cpu.X = 0

\* C8: a step that fetches BRK, NOP or an opcode outside the decode table
\* raises nothing, advances PC by 1 and changes no register, flag or
\* memory byte; the CPU stays available to the next step.
C8_UnimplementedInert ==
    [][(/\ steps' = steps + 1
        /\ \/ last'.opcode \in {0, 234}
           \/ last'.opcode \notin Decoded(variant))
         => /\ cpu' = [cpu EXCEPT !.PC = (cpu.PC + 1) % 65536]
            /\ cpu'.live
            /\ memory' = memory
            /\ exc' = NoError]_vars

\* The opcode 0xFF, which no file decodes, was fetched at 0xFFFD.
C8_Witness ==
    /\ last.op = "step"
    /\ last.opcode = 255
    /\ last.pre.PC = 65533
    /\ cpu.PC = 65534
    /\ cpu.live

\* C9: on the loop program LDA #v ; STA $0200 ; JMP $8000 the PC is only
\* ever 0x8000, 0x8002 or 0x8005, and after every multiple of 3 steps
\* A = v, read(0x0200) = v and PC = 0x8000.
C9_Loop ==
    (rom_file \in LoopPaths /\ cpu.live) =>
        /\ cpu.PC \in {32768, 32770, 32773}
        /\ (steps > 0 /\ steps % 3 = 0) =>
              /\ cpu.A = LoopValue(rom_file)
              /\ Memory_read(memory, 512) = LoopValue(rom_file)
              /\ cpu.PC = 32768

\* The second turn of the loop with v = 5 is complete.
C9_Witness ==
    /\ rom_file = "loop05.nes"
    /\ steps = 6
    /\ cpu.A = 5
    /\ Memory_read(memory, 512) = 5
    /\ cpu.PC = 32768

\* C10: right after CPU(memory), PC is the little-endian word at
\* 0xFFFC/0xFFFD, A = X = Y = 0, SP = 0xFD, the IRQ-disable bit is set
\* and the RAM is all zero.
C10_ResetState ==
    (last.op = "CPU" /\ cpu.live) =>
        /\ cpu.PC = Memory_read(memory, 65532) + 256 * Memory_read(memory, 65533)
        /\ cpu.A = 0 /\ cpu.X = 0 /\ cpu.Y = 0
        /\ cpu.SP = 253
        /\ Bit(cpu.status, 2) = 1
        /\ \A i \in 0..(RAM_SIZE - 1) : memory.ram[i] = 0

\* The vector bytes 0x34, 0x12 gave PC = 0x1234.
C10_Witness ==
    /\ rom_file = "vec1234.nes"
    /\ last.op = "CPU"
    /\ Memory_read(memory, 65532) = 52
    /\ Memory_read(memory, 65533) = 18
    /\ cpu.PC = 4660

\* The addresses the word-fetch property reads at.
WordProbes == {0, 2047, 8191, 32767, 32768, 65532, 65534, 65535}

\* C11: in every variant read_word(a) is read(a) | (read((a + 1) mod
\* 0x10000) << 8) for every 16-bit a, and the operand of an STA or JMP is
\* that word at the address after the opcode, also across 0xFFFF.
C11_WordFetchWraps ==
    /\ [](Len(memory.prg_rom) > 0 =>
            \A a \in WordProbes :
                Memory_read_word(variant, memory, a)
                  = Memory_read(memory, a)
                      + 256 * Memory_read(memory, (a + 1) % 65536))
    /\ [][(steps' = steps + 1 /\ last'.opcode \in {141, 76}) =>
            LET pc == (cpu.PC + 1) % 65536
                word == Memory_read(memory, pc)
                          + 256 * Memory_read(memory, (pc + 1) % 65536)
            IN  IF last'.opcode = 141
                THEN last'.addr = word
                ELSE cpu'.PC = word]_vars

\* C15: once the CPU is constructed only Zero (bit 1) and Negative
\* (bit 7) of status ever differ from the reset value 0x24: bits 2 and 5
\* stay set and bits 0, 3, 4, 6 stay clear.
C15_StatusFrame ==
    cpu.live =>
        /\ \A i \in {2, 5} : Bit(cpu.status, i) = 1
        /\ \A i \in {0, 3, 4, 6} : Bit(cpu.status, i) = 0

\* A load of 0x80 over a set Zero flag has cleared Zero and set Negative:
\* status is 0xA4.
C15_Witness ==
    /\ last.op = "step"
    /\ last.opcode = 169
    /\ Bit(last.pre.status, 1) = 1
    /\ cpu.A = 128
    /\ cpu.status = 164

\* C16: in EMUNESV0.py INX sets X to (X + 1) mod 256 and DEX to (X - 1)
\* mod 256, changing nothing else but Zero, Negative and PC; INX then DEX
\* and DEX then INX give X back.
C16_IndexArithmetic ==
    /\ [][(steps' = steps + 1 /\ variant = NESV0 /\ last'.opcode \in {232, 202}) =>
            /\ cpu'.X = IF last'.opcode = 232
                        THEN (cpu.X + 1) % 256
                        ELSE (cpu.X + 255) % 256
            /\ cpu'.A = cpu.A /\ cpu'.Y = cpu.Y /\ cpu'.SP = cpu.SP
            /\ cpu'.live = cpu.live
            /\ cpu'.PC = (cpu.PC + 1) % 65536
            /\ \A i \in {0, 2, 3, 4, 5, 6} :
                  Bit(cpu'.status, i) = Bit(cpu.status, i)
            /\ memory' = memory]_vars
    /\ []((variant = NESV0 /\ rom_file[1] = "round" /\ steps \in {3, 5}) =>
            cpu.X = rom_file[3])

\* LDX #$FF ; INX ; DEX has brought X back to 0xFF through 0.
C16_Witness ==
    /\ variant = NESV0
    /\ rom_file = <<"round", 0, 255>>
    /\ steps = 3
    /\ last.opcode = 202
    /\ last.pre.X = 0
    /\ cpu.X = 255

\* C18: on the same PRG buffer the three files build the same CPU, and
\* while every opcode fetched so far is one of the common five a step()
\* of any of the three files gives the same CPU and the same Memory, also
\* when the operand bytes straddle 0xFFFF.
C18_VariantEquivalence ==
    /\ []((~cpu.live /\ Len(memory.prg_rom) > 0) =>
            \A v \in Variants : CPU_init(v, memory) = CPU_init(variant, memory))
    /\ [][(steps' = steps + 1 /\ common') =>
            \A v \in Variants :
                CPU_step(v, cpu, memory) = [cpu |-> cpu', memory |-> memory']]_vars

\* C13: in every file the loader raises on an image whose first four
\* bytes are not 4E 45 53 1A and returns no buffers; on an image with the
\* signature and the trainer bit clear it returns the p * 16384 PRG bytes
\* and the c * 8192 CHR bytes that follow the header, unchanged.
C13_FormatValidation ==
    (rom_file[1] = "image" /\ loaded # NoLoad) =>
        IF rom_file[2] # 0
        THEN loaded.err = "ValueError" /\ loaded.prg_rom = <<>> /\ loaded.chr_rom = <<>>
        ELSE BitAnd(rom_file[5], 4) = 0 =>
               /\ loaded.err = NoError
               /\ loaded.prg_rom = PrgData(rom_file[3], 0, 0)
               /\ Len(loaded.prg_rom) = rom_file[3] * 16384
               /\ loaded.chr_rom = ChrData(rom_file[4], 0)
               /\ Len(loaded.chr_rom) = rom_file[4] * 8192

\* C17: in every file, with bit 2 of header byte 6 set the PRG buffer is
\* the bytes from file offset 528 and the CHR buffer follows it; with the
\* bit clear the PRG buffer starts at offset 16.
C17_TrainerSkip ==
    (rom_file[1] = "image" /\ rom_file[2] = 0 /\ loaded # NoLoad) =>
        LET file == ImageBytes(rom_file)
            first == IF BitAnd(rom_file[5], 4) # 0 THEN 528 ELSE 16
            prgLen == rom_file[3] * 16384
            chrLen == rom_file[4] * 8192
        IN  /\ loaded.err = NoError
            /\ loaded.prg_rom = [i \in 1..prgLen |-> file[first + i]]
            /\ loaded.chr_rom = [i \in 1..chrLen |-> file[first + prgLen + i]]

\* C19: for a PRG payload of whole 16 KiB banks and a CHR payload that is
\* absent or of whole 8 KiB banks, load_ines_rom of the file written by
\* format_ines_rom returns the two payloads; the header written has the
\* signature, the bank counts in bytes 4 and 5 and zeros in bytes 6..15.
C19_FormatLoadRoundTrip ==
    (rom_file[1] = "payload" /\ rom_file[3] = 0) =>
        /\ output # <<>> =>
             /\ SubSeq(output, 1, 4) = Signature
             /\ output[5] = rom_file[2]
             /\ output[6] = rom_file[4]
             /\ \A i \in 7..16 : output[i] = 0
        /\ loaded # NoLoad =>
             /\ loaded.err = NoError
             /\ loaded.prg_rom = PrgData(rom_file[2], 0, rom_file[5])
             /\ loaded.chr_rom = ChrData(rom_file[4], rom_file[5])

\* Two PRG banks and one CHR bank have gone through format_ines_rom and
\* load_ines_rom.
C19_Witness ==
    /\ rom_file = <<"payload", 2, 0, 1, 1>>
    /\ Len(output) = 16 + 32768 + 8192
    /\ loaded.err = NoError
    /\ Len(loaded.prg_rom) = 32768
    /\ Len(loaded.chr_rom) = 8192

\* C12: at most one emulate callback is pending on the timer at any time,
\* whatever ROM loads and timer firings came before.
C12_OneStepPerTick == pending <= 1

\* C14: when load_ines_rom raises on the file chosen in open_rom the error
\* is shown and memory, cpu, ppu, running, rom_cache and the pending
\* callbacks are as before the call, so a running session goes on stepping
\* its own ROM.
C14_RejectedLoad ==
    [][(opens' = opens + 1 /\ variant # AI4K /\ rom_file' # ""
          /\ load_ines_rom(AppFileBytes(rom_file')).err # NoError) =>
            /\ shown' = load_ines_rom(AppFileBytes(rom_file')).err
            /\ memory' = memory
            /\ orphan' = orphan
            /\ cpu' = cpu
            /\ ppu' = ppu
            /\ running' = running
            /\ rom_cache' = rom_cache
            /\ pending' = pending
            /\ steps' = steps]_vars

\* bad.nes has been rejected while a session was running: the session is
\* still there with its callback pending.
C14_Witness ==
    /\ rom_file = "bad.nes"
    /\ last.op = "open_rom"
    /\ shown = "ValueError"
    /\ opens = 2
    /\ running
    /\ cpu.live
    /\ pending > 0
    /\ steps >= 2

\* C20: in EMU4K4.2.25$1.0.py rom_cache starts empty, an entry enters it
\* only as what load_ines_rom returns for its path, and no call changes
\* or drops an entry; opening a
\* cached path gives the session that a load of the file gives: zeroed
\* RAM, PC from the reset vector, A = X = Y = 0, SP = 0xFD, status = 0x24,
\* then the first step of emulate().
C20_CacheTransparency ==
    /\ rom_cache = NoCache
    /\ [][/\ DOMAIN rom_cache \subseteq DOMAIN rom_cache'
          /\ \A p \in DOMAIN rom_cache' :
                IF p \in DOMAIN rom_cache
                THEN rom_cache'[p] = rom_cache[p]
                ELSE LET rom == load_ines_rom(AppFileBytes(p))
                     IN  /\ variant = EMU4K4
                         /\ rom.err = NoError
                         /\ rom_cache'[p] = <<rom.prg_rom, rom.chr_rom>>]_vars
    /\ [][(opens' = opens + 1 /\ rom_file' \in DOMAIN rom_cache) =>
            \A rom \in {load_ines_rom(AppFileBytes(rom_file'))} :
            \A m \in {Memory_init(rom.prg_rom)} :
            \A PC \in {Memory_read(m, 65532) + 256 * Memory_read(m, 65533)} :
                LET c == [live |-> TRUE, PC |-> PC, A |-> 0, X |-> 0, Y |-> 0,
                          SP |-> 253, status |-> 36]
                IN  PC >= 0 =>
                      /\ last'.pre = c
                      /\ [cpu |-> cpu', memory |-> memory'] = CPU_step(variant, c, m)
                      /\ ppu' = [live |-> TRUE, chr_rom |-> rom.chr_rom]
                      /\ running']_vars

\* store.nes is opened a second time, from the cache, after the session
\* of its first opening stored 0x7F at 0x0800 (RAM[0]): RAM is zero again.
C20_Witness ==
    /\ variant = EMU4K4
    /\ rom_file = "store.nes"
    /\ opens = 2
    /\ DOMAIN rom_cache = {"store.nes"}
    /\ last.op = "open_rom"
    /\ shown = NoError
    /\ steps >= 3
    /\ memory.ram[0] = 0
    /\ cpu.A = 127

====
